---- MODULE Spec2Model ----
(***************************************************************************)
(* Model of the authorization-graph benchmark repository:                  *)
(*   - generators/generate_data.py : node and edge generators              *)
(*   - benchmarks/python/benchmark_queries.py : benchmark_query statistics *)
(*                                                                         *)
(* Time is counted in clock units of two years, so the "-2y" window of     *)
(* date_time_between is one unit wide.  A draw of random.random() < p with *)
(* 0 < p < 1 is a nondeterministic boolean; random.randint, random.sample  *)
(* and random.choice are nondeterministic choices over their ranges, and   *)
(* raise exactly where the standard library raises.                        *)
(***************************************************************************)
EXTENDS Integers, Sequences, FiniteSets, TLC

\* ------------------------------------------------------------------ bounds
MaxUsers == 2
MaxResources == 2
MaxGroups == 5
\* Bound on the size of one run, see Load; the clock advances only while
\* the size times the clock reading stays within it
MaxLoad == 10
MaxNow == 2
\* program runs and generator invocations per run that are compared
MaxRuns == 2
MaxInvocations == 2
\* benchmark_query: calls on one AuthorizationBenchmark, and the store's
\* behaviours: every script of up to MaxShort executions, each taking 1 or
\* MaxElapsed ms and yielding no row or MaxRows rows, next to the ramps of
\* RampLengths and the plateaus of PlateauLengths
MaxCalls == 2
MaxShort == 1
MaxElapsed == 2
MaxRows == 1
\* generate_comprehensive_report: load times and memory deltas 0..MaxMetric
\* and library sizes 1..MaxBytes in the result files, next to the example
\* values
MaxMetric == 1
MaxBytes == 2
\* BenchmarkServerHandler: POST requests handled, clock ticks of the
\* server's run, distinct JSON bodies
MaxRequests == 2
MaxClock == 2
MaxBody == 2

\* ------------------------------------------------- program constants
\* start_date="-2y" of fake.date_time_between, in clock units
TwoYears == 1
\* the literal 100 in min(100, num_resources-1)
OwnerPoolCap == 100
\* the literal 4 in min(4, len(groups))
MaxMemberships == 4
\* random.randint(1, 5) in generate_user_permission_edges
MaxUserPermissions == 5
\* random.randint(0, 3) in generate_group_permission_edges
MaxGroupPermissions == 3
\* Faker.seed(42); random.seed(42)
Seed == 42
\* warmup: int = 5
DefaultWarmup == 5
\* clock ticks per second: datetime.now() is finer than the %S of strftime
TicksPerSecond == 2

VARIABLES
    pc,             \* position of the generation run
    now,            \* wall clock read by date_time_between(end_date="now")
    num_users,      \* count passed to generate_users
    num_resources,  \* count passed to generate_resources
    num_groups,     \* count passed to generate_groups
    users,          \* list returned by generate_users
    resources,      \* list returned by generate_resources
    groups,         \* list returned by generate_groups
    call,           \* edge generator running or last run
    idx,            \* outer-loop index of the running edge generator
    edges,          \* local list `edges` of the running call / returned list
    result,         \* "none", "pending", "returned" or the exception raised
    \* --- seeded program runs (module-level seeding, wall clock)
    run,            \* number of the program run (process), 0 before the first
    fake_pos,       \* values consumed from Faker's generator since Faker.seed
    invocations,    \* generator invocations made by the current run
    outputs,        \* what each completed generator invocation returned
    \* --- AuthorizationBenchmark
    bpc,            \* position inside benchmark_query
    calls,          \* benchmark_query calls made so far
    script,         \* what the store does on each measured execution
    warmup,         \* argument `warmup`
    executed,       \* the executions issued to the store, in order
    times,          \* local list `times`, in milliseconds
    total_results,  \* local `total_results`
    results,        \* self.results
    returned,       \* value returned by the last benchmark_query call
    \* --- LoadingBenchmark
    lpc,            \* position inside run_all_benchmarks / benchmark_load
    formats,        \* formats run_all_benchmarks has still to benchmark
    format_type,    \* argument `format_type` of the running benchmark_load
    data_files,     \* file names present in data/<format_type>/
    table,          \* 1-based index of the loop over `tables`
    load_times,     \* keys of the dict `load_times`, in insertion order
    store,          \* tables loaded into the database of this run, in order
    db_base,        \* store directories under db/ left by earlier runs
    load_results,   \* self.results of the LoadingBenchmark
    \* --- generate_comprehensive_report
    rpc,            \* "loaded", "analysed", then "written" or "raised"
    report_results, \* the dict `results` returned by load_results()
    smallest_lib,   \* local `smallest_lib` of generate_comprehensive_report
    report,         \* the derived lines written to BENCHMARK_RESULTS.md
    report_error,   \* the exception that ended the report, or "none"
    \* --- BenchmarkServerHandler
    spc,            \* "serving" while the HTTP server runs
    clock,          \* datetime.now(), in ticks
    results_dir,    \* files in results/: file name |-> JSON value stored
    responses       \* the responses sent so far, one per POST, in order

genVars == <<pc, now, num_users, num_resources, num_groups, users, resources,
             groups, call, idx, edges, result>>

runVars == <<run, fake_pos, invocations, outputs>>

benchVars == <<bpc, calls, script, warmup, executed, times, total_results, results,
               returned>>

\* the state of LoadingBenchmark.run_all_benchmarks
loadVars == <<lpc, formats, format_type, data_files, table, load_times, store,
              db_base, load_results>>

reportVars == <<rpc, report_results, smallest_lib, report, report_error>>

serverVars == <<spc, clock, results_dir, responses>>

vars == <<genVars, runVars, benchVars, loadVars, reportVars, serverVars>>

\* ---------------------------------------------------------------- helpers
Min(a, b) == IF a < b THEN a ELSE b
Max(a, b) == IF a > b THEN a ELSE b

RECURSIVE Digits(_)
\* decimal digits of a natural number, most significant first
Digits(n) == IF n < 10 THEN <<n>> ELSE Digits(n \div 10) \o <<n % 10>>

RECURSIVE Zeros(_)
Zeros(k) == IF k <= 0 THEN <<>> ELSE <<0>> \o Zeros(k - 1)

\* format spec "{i:0Wd}": zero-padded to width W, never truncated
ZeroPad(n, width) == Zeros(width - Len(Digits(n))) \o Digits(n)

UserId(i) == [prefix |-> "user_", digits |-> ZeroPad(i, 6)]
\* a bug: ordinals counted from 1
ResourceIdFromOne(i) == [prefix |-> "resource_", digits |-> ZeroPad(i + 1, 6)]

ResourceId(i) == [prefix |-> "resource_", digits |-> ZeroPad(i, 6)]
GroupId(i) == [prefix |-> "group_", digits |-> ZeroPad(i, 4)]

\* fake.date_time_between(start_date, end_date): a time in [start, end]
DateTimeBetween(start, end) == start..end

\* random.randint(a, b): the values it can return (empty range: ValueError)
RandInt(a, b) == a..b

\* a bug: drawing with replacement (random.choices)
SampleWithReplacement(n, k) == [1..k -> 1..n]

\* random.sample(population, k): the index lists of length k without repeats
Sample(n, k) == {s \in [1..k -> 1..n] : \A a, b \in 1..k : a # b => s[a] # s[b]}

\* the four random.random() < p draws of one permission edge
FlagDraws == [create : BOOLEAN, read : BOOLEAN, update : BOOLEAN, delete : BOOLEAN]

\* size of a run with u users, r resources and g groups: the candidate
\* (subject, resource) pairs, five times each (a permission edge carries
\* four flags and a timestamp), and the candidate (user, group) pairs, twice
\* for each user
Load(u, r, g) == 5 * r * (u + g) + 2 * u * u * g

\* ------------------------------------------------------------------- Init
\* no program run has started
RunsIdle ==
    /\ run = 0
    /\ fake_pos = 0
    /\ invocations = 0
    /\ outputs = <<>>

\* no AuthorizationBenchmark exists
BenchIdle ==
    /\ bpc = "none"
    /\ calls = 0
    /\ script = <<>>
    /\ warmup = 0
    /\ executed = <<>>
    /\ times = <<>>
    /\ total_results = 0
    /\ results = <<>>
    /\ returned = [kind |-> "none"]

\* no LoadingBenchmark exists
LoadIdle ==
    /\ lpc = "none"
    /\ formats = <<>>
    /\ format_type = "none"
    /\ data_files = {}
    /\ table = 0
    /\ load_times = <<>>
    /\ store = <<>>
    /\ db_base = <<>>
    /\ load_results = <<>>

\* no report is being generated
ReportIdle ==
    /\ rpc = "none"
    /\ report_results = <<>>
    /\ smallest_lib = "none"
    /\ report = <<>>
    /\ report_error = "none"

\* no HTTP server runs
ServerIdle ==
    /\ spc = "none"
    /\ clock = 0
    /\ results_dir = <<>>
    /\ responses = <<>>

GenIdle ==
    /\ pc = "none"
    /\ num_users = 0
    /\ num_resources = 0
    /\ num_groups = 0
    /\ users = <<>>
    /\ resources = <<>>
    /\ groups = <<>>
    /\ call = "none"
    /\ idx = 0
    /\ edges = <<>>
    /\ result = "none"

Init ==
    /\ RunsIdle
    /\ ServerIdle
    /\ BenchIdle
    /\ LoadIdle
    /\ ReportIdle
    /\ pc = "users"
    /\ now = TwoYears
    /\ num_users \in 0..MaxUsers
    /\ num_resources \in 0..MaxResources
    /\ num_groups \in 0..MaxGroups
    /\ Load(num_users, num_resources, num_groups) <= MaxLoad
    /\ users = <<>>
    /\ resources = <<>>
    /\ groups = <<>>
    /\ call = "none"
    /\ idx = 0
    /\ edges = <<>>
    /\ result = "none"

\* the wall clock advances between two generator calls of main()
Tick ==
    /\ pc = "edges"
    /\ result # "pending"
    /\ now < MaxNow
    /\ Load(num_users, num_resources, num_groups) * (now + 1) <= MaxLoad
    /\ now' = now + 1
    /\ UNCHANGED <<serverVars, runVars, benchVars, loadVars, reportVars, pc, num_users, num_resources, num_groups, users, resources,
                   groups, call, idx, edges, result>>

\* ---------------------------------------------------------- node generators
\* one iteration of the loop of generate_users; the ordinal is the 0-based i
generate_users ==
    /\ pc = "users"
    /\ Len(users) < num_users
    /\ \E created_at \in DateTimeBetween(now - TwoYears, now) :
         users' = Append(users, [id |-> UserId(Len(users)),
                                 created_at |-> created_at])
    /\ UNCHANGED <<serverVars, runVars, benchVars, loadVars, reportVars, pc, now, num_users, num_resources, num_groups, resources,
                   groups, call, idx, edges, result>>

generate_users_return ==
    /\ pc = "users"
    /\ Len(users) = num_users
    /\ pc' = "resources"
    /\ UNCHANGED <<serverVars, runVars, benchVars, loadVars, reportVars, now, num_users, num_resources, num_groups, users, resources,
                   groups, call, idx, edges, result>>

\* owner of a resource: random.randint(0, min(100, num_resources-1))
OwnerOrdinals(n) == RandInt(0, Min(OwnerPoolCap, n - 1))

generate_resources ==
    /\ pc = "resources"
    /\ Len(resources) < num_resources
    /\ \E created_at \in DateTimeBetween(now - TwoYears, now),
          owner \in OwnerOrdinals(num_resources) :
         resources' = Append(resources, [id |-> ResourceId(Len(resources)),
                                         owner_id |-> UserId(owner),
                                         created_at |-> created_at])
    /\ UNCHANGED <<serverVars, runVars, benchVars, loadVars, reportVars, pc, now, num_users, num_resources, num_groups, users,
                   groups, call, idx, edges, result>>

generate_resources_return ==
    /\ pc = "resources"
    /\ Len(resources) = num_resources
    /\ pc' = "groups"
    /\ UNCHANGED <<serverVars, runVars, benchVars, loadVars, reportVars, now, num_users, num_resources, num_groups, users, resources,
                   groups, call, idx, edges, result>>

generate_groups ==
    /\ pc = "groups"
    /\ Len(groups) < num_groups
    /\ \E created_at \in DateTimeBetween(now - TwoYears, now) :
         groups' = Append(groups, [id |-> GroupId(Len(groups)),
                                   created_at |-> created_at])
    /\ UNCHANGED <<serverVars, runVars, benchVars, loadVars, reportVars, pc, now, num_users, num_resources, num_groups, users,
                   resources, call, idx, edges, result>>

generate_groups_return ==
    /\ pc = "groups"
    /\ Len(groups) = num_groups
    /\ pc' = "edges"
    /\ UNCHANGED <<serverVars, runVars, benchVars, loadVars, reportVars, now, num_users, num_resources, num_groups, users, resources,
                   groups, call, idx, edges, result>>

\* ---------------------------------------------------------- edge generators
EdgeGenerators == {"member_of", "user_permissions", "group_permissions",
                   "inherits_from"}

\* main() calls an edge generator on the generated node lists
CallEdgeGenerator ==
    /\ pc = "edges"
    /\ result # "pending"
    /\ \E g \in EdgeGenerators : call' = g
    /\ idx' = 1
    /\ edges' = <<>>
    /\ result' = "pending"
    /\ UNCHANGED <<serverVars, runVars, benchVars, loadVars, reportVars, pc, now, num_users, num_resources, num_groups, users,
                   resources, groups>>

\* an exception leaves the generator: its local list is lost
Raise(exc) ==
    /\ result' = exc
    /\ edges' = <<>>
    /\ idx' = 0

Running(g) == pc = "edges" /\ result = "pending" /\ call = g

\* loop exhausted: return edges
ReturnEdges(g, n) ==
    /\ Running(g)
    /\ idx > n
    /\ result' = "returned"
    /\ idx' = 0
    /\ UNCHANGED <<serverVars, runVars, benchVars, loadVars, reportVars, pc, now, num_users, num_resources, num_groups, users,
                   resources, groups, call, edges>>

\* a bug: the window opens at the earlier of the two creation times
EdgeTimeFromEarlier(a, b) == DateTimeBetween(Min(a.created_at, b.created_at), now)

\* start_date=max(a.created_at, b.created_at), end_date="now"
EdgeTime(a, b) == DateTimeBetween(Max(a.created_at, b.created_at), now)

\* the dict appended by generate_member_of_edges (role left out)
MemberOfEdge(user, group, joined_at) ==
    [from |-> user.id, to |-> group.id, joined_at |-> joined_at]

\* a bug: can_delete is drawn for the owner too
UserPermissionEdgeOwnerDraw(user, resource, draw, granted_at) ==
    LET is_owner == user.id = resource.owner_id
    IN [from |-> user.id,
        to |-> resource.id,
        can_create |-> is_owner \/ draw.create,
        can_read |-> is_owner \/ draw.read,
        can_update |-> is_owner \/ draw.update,
        can_delete |-> draw.delete,
        granted_at |-> granted_at,
        granted_by |-> resource.owner_id]

\* the dict appended by generate_user_permission_edges
UserPermissionEdge(user, resource, draw, granted_at) ==
    LET is_owner == user.id = resource.owner_id
    IN [from |-> user.id,
        to |-> resource.id,
        can_create |-> is_owner \/ draw.create,
        can_read |-> is_owner \/ draw.read,
        can_update |-> is_owner \/ draw.update,
        can_delete |-> is_owner \/ draw.delete,
        granted_at |-> granted_at,
        granted_by |-> resource.owner_id]

\* a bug: the edge points at the resource's owner instead of the resource
GroupPermissionEdgeToOwner(group, resource, draw, granted_at) ==
    [from |-> group.id,
     to |-> resource.owner_id,
     can_create |-> draw.create,
     can_read |-> draw.read,
     can_update |-> draw.update,
     can_delete |-> draw.delete,
     granted_at |-> granted_at,
     granted_by |-> resource.owner_id]

\* the dict appended by generate_group_permission_edges
GroupPermissionEdge(group, resource, draw, granted_at) ==
    [from |-> group.id,
     to |-> resource.id,
     can_create |-> draw.create,
     can_read |-> draw.read,
     can_update |-> draw.update,
     can_delete |-> draw.delete,
     granted_at |-> granted_at,
     granted_by |-> resource.owner_id]

\* the dict appended by generate_inherits_from_edges
InheritsFromEdge(child_group, parent_group, created_at) ==
    [from |-> child_group.id, to |-> parent_group.id, created_at |-> created_at]

\* one iteration of `for user in users` of generate_member_of_edges
generate_member_of_edges ==
    /\ Running("member_of")
    /\ idx <= Len(users)
    /\ LET user == users[idx]
           hi == Min(MaxMemberships, Len(groups))
       IN IF RandInt(1, hi) = {}
          THEN Raise("ValueError")
          ELSE \E num_memberships \in RandInt(1, hi) :
               \E selected_groups \in Sample(Len(groups), num_memberships) :
               \E joined_at \in [1..num_memberships -> 0..now] :
                 /\ \A j \in 1..num_memberships :
                      joined_at[j] \in EdgeTime(user, groups[selected_groups[j]])
                 /\ edges' = edges \o
                      [j \in 1..num_memberships |->
                         MemberOfEdge(user, groups[selected_groups[j]],
                                      joined_at[j])]
                 /\ idx' = idx + 1
                 /\ UNCHANGED result
    /\ UNCHANGED <<serverVars, runVars, benchVars, loadVars, reportVars, pc, now, num_users, num_resources, num_groups, users,
                   resources, groups, call>>

generate_member_of_edges_return == ReturnEdges("member_of", Len(users))

\* one iteration of `for resource in resources` of
\* generate_user_permission_edges
generate_user_permission_edges ==
    /\ Running("user_permissions")
    /\ idx <= Len(resources)
    /\ LET resource == resources[idx]
       IN \E num_permissions \in RandInt(1, MaxUserPermissions) :
          IF num_permissions > Len(users)
          THEN Raise("ValueError")
          ELSE \E selected_users \in Sample(Len(users), num_permissions) :
               \E granted_at \in [1..num_permissions -> 0..now] :
               \E draw \in [1..num_permissions -> FlagDraws] :
                 /\ \A j \in 1..num_permissions :
                      granted_at[j] \in EdgeTime(users[selected_users[j]], resource)
                 /\ edges' = edges \o
                      [j \in 1..num_permissions |->
                         UserPermissionEdge(users[selected_users[j]], resource,
                                            draw[j], granted_at[j])]
                 /\ idx' = idx + 1
                 /\ UNCHANGED result
    /\ UNCHANGED <<serverVars, runVars, benchVars, loadVars, reportVars, pc, now, num_users, num_resources, num_groups, users,
                   resources, groups, call>>

generate_user_permission_edges_return ==
    ReturnEdges("user_permissions", Len(resources))

\* one iteration of `for resource in resources` of
\* generate_group_permission_edges
generate_group_permission_edges ==
    /\ Running("group_permissions")
    /\ idx <= Len(resources)
    /\ LET resource == resources[idx]
       IN \E num_permissions \in RandInt(0, MaxGroupPermissions) :
          IF num_permissions > 0 /\ num_permissions > Len(groups)
          THEN Raise("ValueError")
          ELSE \E selected_groups \in Sample(Len(groups), num_permissions) :
               \E granted_at \in [1..num_permissions -> 0..now] :
               \E draw \in [1..num_permissions -> FlagDraws] :
                 /\ \A j \in 1..num_permissions :
                      granted_at[j] \in EdgeTime(groups[selected_groups[j]], resource)
                 /\ edges' = edges \o
                      [j \in 1..num_permissions |->
                         GroupPermissionEdge(groups[selected_groups[j]],
                                             resource, draw[j], granted_at[j])]
                 /\ idx' = idx + 1
                 /\ UNCHANGED result
    /\ UNCHANGED <<serverVars, runVars, benchVars, loadVars, reportVars, pc, now, num_users, num_resources, num_groups, users,
                   resources, groups, call>>

generate_group_permission_edges_return ==
    ReturnEdges("group_permissions", Len(resources))

\* a bug: the middle group of an odd count is on both sides
potential_parents_rounded_up == SubSeq(groups, 1, (Len(groups) + 1) \div 2)

\* groups[: len(groups) // 2] and groups[len(groups) // 2 :]
potential_parents == SubSeq(groups, 1, Len(groups) \div 2)
\* a bug: every group can be a child
potential_children_all == groups

potential_children == SubSeq(groups, Len(groups) \div 2 + 1, Len(groups))

\* one iteration of `for child_group in potential_children` of
\* generate_inherits_from_edges
generate_inherits_from_edges ==
    /\ Running("inherits_from")
    /\ idx <= Len(potential_children)
    /\ LET child_group == potential_children[idx]
       IN \E inherits \in BOOLEAN :
          IF ~inherits
          THEN /\ idx' = idx + 1
               /\ UNCHANGED <<edges, result>>
          ELSE IF potential_parents = <<>>
          THEN Raise("IndexError")
          ELSE \E p \in 1..Len(potential_parents) :
               \E created_at \in EdgeTime(child_group, potential_parents[p]) :
                 /\ edges' = Append(edges,
                                    InheritsFromEdge(child_group,
                                                     potential_parents[p],
                                                     created_at))
                 /\ idx' = idx + 1
                 /\ UNCHANGED result
    /\ UNCHANGED <<serverVars, runVars, benchVars, loadVars, reportVars, pc, now, num_users, num_resources, num_groups, users,
                   resources, groups, call>>

generate_inherits_from_edges_return ==
    ReturnEdges("inherits_from", Len(potential_children))

Next ==
    \/ Tick
    \/ generate_users
    \/ generate_users_return
    \/ generate_resources
    \/ generate_resources_return
    \/ generate_groups
    \/ generate_groups_return
    \/ CallEdgeGenerator
    \/ generate_member_of_edges
    \/ generate_member_of_edges_return
    \/ generate_user_permission_edges
    \/ generate_user_permission_edges_return
    \/ generate_group_permission_edges
    \/ generate_group_permission_edges_return
    \/ generate_inherits_from_edges
    \/ generate_inherits_from_edges_return

Spec == Init /\ [][Next]_vars

\* ============================================== seeded runs of the program
\* Faker's generator is a deterministic function of the seed and of the
\* number of values drawn since seeding; which function is immaterial, a
\* full-period congruential stream stands for it.
RECURSIVE SeededStream(_, _)
SeededStream(seed, pos) ==
    IF pos = 0 THEN seed % 16 ELSE (5 * SeededStream(seed, pos - 1) + 3) % 16

\* fake.date_time_between(start, end) as a function of the value drawn
DateTimeAt(start, end, drawn) == start + (drawn % (end - start + 1))

InitRuns ==
    /\ GenIdle
    /\ ServerIdle
    /\ BenchIdle
    /\ LoadIdle
    /\ ReportIdle
    /\ RunsIdle
    /\ now = TwoYears

\* a process starts and imports the module: Faker.seed(42), random.seed(42)
StartRun ==
    /\ run < MaxRuns
    /\ run' = run + 1
    /\ fake_pos' = 0
    /\ invocations' = 0
    /\ UNCHANGED <<serverVars, genVars, benchVars, loadVars, reportVars, outputs>>

\* the wall clock advances, within a run or between two runs
WallClock ==
    /\ now < MaxNow
    /\ now' = now + 1
    /\ UNCHANGED <<pc, num_users, num_resources, num_groups, users, resources,
                   groups, call, idx, edges, result>>
    /\ UNCHANGED <<serverVars, runVars, benchVars, loadVars, reportVars>>

\* the list generate_users(n) builds when Faker's generator stands at `pos`:
\* each user draws date_time_between, name, email, job and city in turn
SeededUsers(n, pos) ==
    [i \in 1..n |->
        [id |-> UserId(i - 1),
         name |-> SeededStream(Seed, pos + 5 * (i - 1) + 1),
         created_at |-> DateTimeAt(now - TwoYears, now,
                                   SeededStream(Seed, pos + 5 * (i - 1)))]]

\* a whole call generate_users(n) in the current run
generate_users_seeded ==
    /\ run >= 1
    /\ invocations < MaxInvocations
    /\ \E n \in 1..MaxUsers :
         /\ outputs' = Append(outputs, [run |-> run,
                                        seed |-> Seed,
                                        count |-> n,
                                        value |-> SeededUsers(n, fake_pos)])
         /\ fake_pos' = fake_pos + 5 * n
    /\ invocations' = invocations + 1
    /\ UNCHANGED <<serverVars, genVars, benchVars, loadVars, reportVars, run>>

NextRuns ==
    \/ StartRun
    \/ WallClock
    \/ generate_users_seeded

SpecRuns == InitRuns /\ [][NextRuns]_vars

\* ================================================= AuthorizationBenchmark
\* what the store does on the measured executions of one call: the elapsed
\* time of each (ms) and the number of rows its cursor yields
StoreStep == [elapsed : {1, MaxElapsed}, rows : {0, MaxRows}]

ShortScripts == UNION {[1..n -> StoreStep] : n \in 0..MaxShort}

RampLengths == {3, 10, 20, 21, 100, 101}

\* elapsed times n, n-1, ..., 1; every other execution yields a row
Ramp(n) == [i \in 1..n |-> [elapsed |-> n + 1 - i, rows |-> i % 2]]

PlateauLengths == {4, 20}

\* elapsed times in descending pairs of equal values
Plateau(n) == [i \in 1..n |-> [elapsed |-> (n - i) \div 2 + 1, rows |-> 1]]

StoreScripts ==
    ShortScripts \cup {Ramp(n) : n \in RampLengths}
                 \cup {Plateau(n) : n \in PlateauLengths}

\* no warmup, or the default
Warmups == {0, DefaultWarmup}

RECURSIVE SortBetween(_, _, _)
\* ascending order of a list whose elements all lie in lo..hi, by halving
\* the range of values
SortBetween(seq, lo, hi) ==
    IF seq = <<>> \/ lo >= hi THEN seq
    ELSE LET mid == (lo + hi) \div 2
             Low(x) == x <= mid
             High(x) == x > mid
         IN SortBetween(SelectSeq(seq, Low), lo, mid)
            \o SortBetween(SelectSeq(seq, High), mid + 1, hi)

\* a bug: the list is left in execution order
Unsorted(seq) == seq

\* list.sort(): ascending
ListSort(seq) ==
    IF seq = <<>> THEN <<>>
    ELSE LET values == {seq[i] : i \in DOMAIN seq}
             lo == CHOOSE v \in values : \A w \in values : v <= w
             hi == CHOOSE v \in values : \A w \in values : v >= w
         IN SortBetween(seq, lo, hi)

RECURSIVE Sum(_)
\* sum(times), added up by halves
Sum(seq) ==
    IF seq = <<>> THEN 0
    ELSE IF Len(seq) = 1 THEN seq[1]
    ELSE Sum(SubSeq(seq, 1, Len(seq) \div 2))
         + Sum(SubSeq(seq, Len(seq) \div 2 + 1, Len(seq)))

\* a bug: the textbook nearest rank, ceil(n * percent / 100) - 1
PercentileIndexCeilRank(n, percent) == (n * percent + 99) \div 100 - 1

\* len(times) // 2 and int(len(times) * 0.95), int(len(times) * 0.99): the
\* float product truncates to floor(n * percent / 100) for every n < 2^50
PercentileIndex(n, percent) == (n * percent) \div 100

\* seq[k] of a Python list, 0-based
ListIndex(seq, k) == seq[k + 1]

\* a bug: the last index of the list counts as past the end
IndexErrorAtLast(n) == \E percent \in {50, 95, 99} : PercentileIndex(n, percent) >= n - 1

\* the percentile lookups read past the end of a list of n elements
IndexError(n) == \E percent \in {50, 95, 99} : PercentileIndex(n, percent) >= n

\* a bug: the total is the slowest sample, not the sum of the samples
QueryResultSlowestAsTotal(sorted, count) ==
    [iterations |-> Len(sorted),
     total_time_sec |-> [num |-> sorted[Len(sorted)], den |-> 1000],
     avg_time_ms |-> [num |-> Sum(sorted), den |-> Len(sorted)],
     min_time_ms |-> sorted[1],
     max_time_ms |-> sorted[Len(sorted)],
     p50_time_ms |-> sorted[PercentileIndex(Len(sorted), 50) + 1],
     p95_time_ms |-> sorted[PercentileIndex(Len(sorted), 95) + 1],
     p99_time_ms |-> sorted[PercentileIndex(Len(sorted), 99) + 1],
     results_count |-> count]

\* the statistics block of benchmark_query on the sorted list `sorted`
QueryResult(sorted, count) ==
    [iterations |-> Len(sorted),
     total_time_sec |-> [num |-> Sum(sorted), den |-> 1000],
     avg_time_ms |-> [num |-> Sum(sorted), den |-> Len(sorted)],
     min_time_ms |-> sorted[1],
     max_time_ms |-> sorted[Len(sorted)],
     p50_time_ms |-> ListIndex(sorted, PercentileIndex(Len(sorted), 50)),
     p95_time_ms |-> ListIndex(sorted, PercentileIndex(Len(sorted), 95)),
     p99_time_ms |-> ListIndex(sorted, PercentileIndex(Len(sorted), 99)),
     results_count |-> count]

InitBench ==
    /\ GenIdle
    /\ ServerIdle
    /\ RunsIdle
    /\ LoadIdle
    /\ ReportIdle
    /\ now = TwoYears
    /\ bpc = "idle"
    /\ calls = 0
    /\ script = <<>>
    /\ warmup = 0
    /\ executed = <<>>
    /\ times = <<>>
    /\ total_results = 0
    /\ results = <<>>
    /\ returned = [kind |-> "none"]

\* a bug: the emptiness check is missing
NoParametersUnchecked(params_list) == FALSE

\* `not params_list`
NoParameters(params_list) == params_list = <<>>

\* benchmark_query is entered: an empty params_list returns None at once
benchmark_query ==
    /\ bpc \in {"idle", "completed", "skipped", "raised"}
    /\ calls < MaxCalls
    /\ calls' = calls + 1
    /\ \E s \in StoreScripts, w \in Warmups :
         /\ script' = s
         /\ warmup' = w
         /\ IF NoParameters(s)
            THEN bpc' = "skipped" /\ returned' = [kind |-> "None"]
            ELSE bpc' = "warming-up" /\ returned' = [kind |-> "pending"]
    /\ executed' = <<>>
    /\ times' = <<>>
    /\ total_results' = 0
    /\ UNCHANGED <<serverVars, genVars, runVars, loadVars, reportVars, results>>

\* a bug: the warmup argument is ignored, the default is used
WarmupCountDefault(w, n) == Min(DefaultWarmup, n)

\* range(min(warmup, len(params_list)))
WarmupCount(w, n) == Min(w, n)

WarmupsDone == Len(executed) = WarmupCount(warmup, Len(script))

\* what the store sees of a warmup execution of parameter set `param`
\* (0-based): execute, then the cursor is read until has_next() is false
WarmupExecution(param) ==
    [phase |-> "warmup",
     param |-> param,
     rows |-> script[param + 1].rows,
     events |-> <<"execute", "exhausted">>]

\* a bug: the timer is read right after execute, before the rows are read
MeasuredExecutionTimedAtSubmit(param) ==
    [phase |-> "measured",
     param |-> param,
     rows |-> script[param + 1].rows,
     events |-> <<"start", "execute", "stop", "exhausted">>]

\* a measured execution: perf_counter, execute, the cursor is read until
\* has_next() is false, perf_counter
MeasuredExecution(param) ==
    [phase |-> "measured",
     param |-> param,
     rows |-> script[param + 1].rows,
     events |-> <<"start", "execute", "exhausted", "stop">>]

\* one warmup execution: the query runs, its rows are consumed and dropped
warmup_iteration ==
    /\ bpc = "warming-up"
    /\ ~WarmupsDone
    /\ executed' = Append(executed, WarmupExecution(Len(executed)))
    /\ UNCHANGED <<serverVars, genVars, runVars, loadVars, reportVars, bpc, calls, script, warmup, times,
                   total_results, results, returned>>

warmup_done ==
    /\ bpc = "warming-up"
    /\ WarmupsDone
    /\ bpc' = "measuring"
    /\ UNCHANGED <<serverVars, genVars, runVars, loadVars, reportVars, calls, script, warmup, executed, times,
                   total_results, results, returned>>

\* one measured execution: timer, execute, consume every row, timer
measured_iteration ==
    /\ bpc = "measuring"
    /\ Len(times) < Len(script)
    /\ LET step == script[Len(times) + 1]
           execution == MeasuredExecution(Len(times))
       IN /\ times' = Append(times, step.elapsed)
          /\ total_results' = total_results + execution.rows
          /\ executed' = Append(executed, execution)
    /\ UNCHANGED <<serverVars, genVars, runVars, loadVars, reportVars, bpc, calls, script, warmup, results,
                   returned>>

\* a bug: the list is rebound to the latest record
KeepLatest(recorded, res) == <<res>>

\* self.results.append(result)
AppendResult(recorded, res) == Append(recorded, res)

\* times.sort(), the statistics, self.results.append(result), return result
calculate_statistics ==
    /\ bpc = "measuring"
    /\ Len(times) = Len(script)
    /\ LET sorted == ListSort(times)
           res == QueryResult(sorted, total_results)
       IN /\ times' = sorted
          /\ IF IndexError(Len(sorted))
             THEN /\ bpc' = "raised"
                  /\ returned' = [kind |-> "IndexError"]
                  /\ UNCHANGED results
             ELSE /\ bpc' = "completed"
                  /\ returned' = [kind |-> "QueryResult", value |-> res]
                  /\ results' = AppendResult(results, res)
    /\ UNCHANGED <<serverVars, genVars, runVars, loadVars, reportVars, calls, script, warmup, executed,
                   total_results>>

NextBench ==
    \/ benchmark_query
    \/ warmup_iteration
    \/ warmup_done
    \/ measured_iteration
    \/ calculate_statistics

SpecBench == InitBench /\ [][NextBench]_vars

\* ======================================================= LoadingBenchmark
\* formats = ["csv", "parquet"] of run_all_benchmarks (methods = ["copy"])
Formats == <<"csv", "parquet">>

\* the list `tables` of benchmark_load: (table_name, file_name)
Tables ==
    <<[table_name |-> "User", file_name |-> "users"],
      [table_name |-> "Resource", file_name |-> "resources"],
      [table_name |-> "UserGroup", file_name |-> "groups"],
      [table_name |-> "MEMBER_OF", file_name |-> "member_of"],
      [table_name |-> "HAS_PERMISSION_USER", file_name |-> "user_permissions"],
      [table_name |-> "HAS_PERMISSION_GROUP", file_name |-> "group_permissions"],
      [table_name |-> "INHERITS_FROM", file_name |-> "inherits_from"]>>

FileNames == {Tables[i].file_name : i \in DOMAIN Tables}

\* CREATE REL TABLE t(FROM a TO b, ...) of create_fresh_db: the node tables
\* whose primary keys the rows of t refer to; none for a node table
Endpoints(t) ==
    CASE t = "MEMBER_OF" -> {"User", "UserGroup"}
      [] t = "HAS_PERMISSION_USER" -> {"User", "Resource"}
      [] t = "HAS_PERMISSION_GROUP" -> {"UserGroup", "Resource"}
      [] t = "INHERITS_FROM" -> {"UserGroup"}
      [] OTHER -> {}

Loaded == {store[i] : i \in DOMAIN store}

\* conn.execute('COPY t FROM "file"'): the outcomes the store can produce.
\* A row of a relationship file whose endpoint is not in the node table is
\* rejected with an exception; a file without such a row is copied
CopyOutcomes(t) ==
    IF Endpoints(t) \subseteq Loaded THEN {"copied"} ELSE {"copied", "raised"}

\* db/bench_<format>_copy at the start: absent, or left by an earlier run
\* with every table loaded
EarlierStores == {<<>>, <<[i \in DOMAIN Tables |-> Tables[i].table_name]>>}

InitLoad ==
    /\ GenIdle
    /\ ServerIdle
    /\ RunsIdle
    /\ BenchIdle
    /\ ReportIdle
    /\ now = TwoYears
    /\ lpc = "idle"
    /\ formats = Formats
    /\ format_type = "none"
    /\ data_files = {}
    /\ table = 0
    /\ load_times = <<>>
    /\ store = <<>>
    /\ db_base \in [{Formats[i] : i \in DOMAIN Formats} -> EarlierStores]
    /\ load_results = <<>>

\* a bug: an existing store directory is opened as it is
OpenedStore(db_path) == IF db_path = <<>> THEN <<>> ELSE db_path[1]

\* create_fresh_db: an existing directory is removed, then the database is
\* created and the schema with it: no table holds a row
create_fresh_db(db_path) == <<>>

\* a bug: an exception ends run_all_benchmarks
FormatReturned == lpc \in {"idle", "completed"}

\* the body of `for format_type in formats` is over: benchmark_load
\* returned, or raised and the exception was caught and printed
FormatIsOver == lpc \in {"idle", "completed", "raised"}

\* run_all_benchmarks takes the next format and enters benchmark_load:
\* create_fresh_db gives an empty database with the schema; the files found
\* in data/<format_type>/ are whatever the disk holds
benchmark_load ==
    /\ FormatIsOver
    /\ formats # <<>>
    /\ format_type' = Head(formats)
    /\ formats' = Tail(formats)
    /\ data_files' \in SUBSET FileNames
    /\ store' = create_fresh_db(db_base[Head(formats)])
    /\ load_times' = <<>>
    /\ table' = 1
    /\ lpc' = "loading"
    /\ UNCHANGED <<serverVars, genVars, runVars, benchVars, reportVars, db_base, load_results>>

\* a bug: a missing file ends the loop (break instead of continue)
SkipTableBreak == Len(Tables) + 1

\* `continue` on a missing file: on to the next table
SkipTable == table + 1

\* one iteration of `for table_name, file_name in tables`
load_table ==
    /\ lpc = "loading"
    /\ table <= Len(Tables)
    /\ LET table_name == Tables[table].table_name
           file_name == Tables[table].file_name
       IN IF file_name \notin data_files
          THEN /\ table' = SkipTable
               /\ UNCHANGED <<lpc, load_times, store>>
          ELSE \E outcome \in CopyOutcomes(table_name) :
               IF outcome = "raised"
               THEN /\ lpc' = "raised"
                    /\ UNCHANGED <<table, load_times, store>>
               ELSE /\ store' = Append(store, table_name)
                    /\ load_times' = Append(load_times, table_name)
                    /\ table' = table + 1
                    /\ UNCHANGED lpc
    /\ UNCHANGED <<serverVars, genVars, runVars, benchVars, reportVars, formats, format_type, data_files,
                   db_base, load_results>>

\* the dict `result` of benchmark_load (sizes, counts and times left out)
LoadResult ==
    [format |-> format_type,
     method |-> "copy",
     table_load_times_sec |-> load_times]

\* after the loop: sizes and counts are taken, the result is compiled,
\* appended to self.results and returned
load_done ==
    /\ lpc = "loading"
    /\ table > Len(Tables)
    /\ load_results' = Append(load_results, LoadResult)
    /\ lpc' = "completed"
    /\ UNCHANGED <<serverVars, genVars, runVars, benchVars, reportVars, formats, format_type, data_files,
                   table, load_times, store, db_base>>

\* after the last format: save_results and print_comparison
save_results ==
    /\ FormatIsOver
    /\ formats = <<>>
    /\ lpc' = "saved"
    /\ UNCHANGED <<serverVars, genVars, runVars, benchVars, reportVars, formats, format_type, data_files,
                   table, load_times, store, db_base, load_results>>

NextLoad ==
    \/ benchmark_load
    \/ load_table
    \/ load_done
    \/ save_results

SpecLoad == InitLoad /\ [][NextLoad]_vars

\* =========================================== generate_comprehensive_report
\* an optional value (a dict key that may be missing, a function that may
\* return None): <<>> when absent, <<v>> when present
Maybe(S) == {<<>>} \cup {<<v>> : v \in S}
IsPresent(m) == m # <<>>
ValueOf(m) == m[1]

\* an entry of loading_benchmark_results.json as benchmark_load writes it:
\* records_per_second is 0 when total_load_time_sec is 0
LoadingEntry(f, t, m) ==
    [format |-> f,
     total_load_time_sec |-> t,
     memory_used_mb |-> m,
     records_per_second |-> IF t > 0 THEN 1 ELSE 0]

\* the example of the report's contract: CSV 10.0 s and 100 MB, Parquet
\* 7.0 s and 15 MB
ExampleCsv == LoadingEntry("csv", 10, 100)
ExampleParquet == LoadingEntry("parquet", 7, 15)
ExampleNodeCsv == LoadingEntry("csv", 5, 50)

Metrics == 0..MaxMetric
Bytes == 1..MaxBytes

ExampleQuery ==
    [query_name |-> "Direct Permission Check", avg_time_ms |-> 2,
     p95_time_ms |-> 3]

ExampleWasmQuery == [name |-> "Direct Permission Check", avgMs |-> 4]

ExampleWasmLoading ==
    [loadTimeMs |-> 1000, recordsPerSecond |-> 1, totalRecords |-> 1]

\* library_sizes.json: the keys the report reads
LibrarySizes(pythons, nodes) ==
    [python : Maybe([total_bytes : pythons]),
     nodejs : Maybe([total_bytes : nodes, production_bytes : Maybe(nodes)])]

\* a kuzu-wasm-benchmark*.json: the keys the report reads
WasmData(bundles, loadings, queries) ==
    [bundleSize : bundles, loading : loadings, queries : queries]

CompleteWasm(bundles) ==
    WasmData({<<[total |-> b]>> : b \in bundles}, {<<ExampleWasmLoading>>},
             {<<<<ExampleWasmQuery>>>>})

\* no result file at all
NoResults ==
    [python_loading |-> <<>>,
     python_queries |-> <<>>,
     nodejs_loading |-> <<>>,
     nodejs_queries |-> <<>>,
     library_sizes |-> <<>>,
     wasm |-> <<>>,
     cloudflare |-> FALSE,
     client |-> FALSE]

\* every combination of result files, of csv and parquet entries and of
\* WASM sub-keys, with the example values
PresenceInputs ==
    [python_loading : Maybe({<<>>, <<ExampleCsv>>, <<ExampleParquet>>,
                             <<ExampleCsv, ExampleParquet>>}),
     python_queries : Maybe({<<ExampleQuery>>}),
     nodejs_loading : Maybe({<<ExampleNodeCsv>>}),
     nodejs_queries : Maybe({<<ExampleQuery>>}),
     library_sizes : Maybe(LibrarySizes({2}, {1})),
     wasm : Maybe(WasmData(Maybe({[total |-> 3]}), Maybe({ExampleWasmLoading}),
                           Maybe({<<ExampleWasmQuery>>}))),
     cloudflare : BOOLEAN,
     client : BOOLEAN]

\* csv and parquet loading results with every small load time and memory
\* delta, nothing else
LoadingInputs ==
    {[NoResults EXCEPT !.python_loading =
          <<<<LoadingEntry("csv", t1, m1), LoadingEntry("parquet", t2, m2)>>>>] :
       t1 \in Metrics, m1 \in Metrics, t2 \in Metrics, m2 \in Metrics}

\* library sizes of every small size, with a complete WASM result or none
SizeInputs ==
    {[NoResults EXCEPT !.library_sizes = <<l>>, !.wasm = w] :
       l \in LibrarySizes(Bytes, Bytes), w \in Maybe(CompleteWasm(Bytes))}

ReportInputs == PresenceInputs \cup LoadingInputs \cup SizeInputs

InitReport ==
    /\ GenIdle
    /\ ServerIdle
    /\ RunsIdle
    /\ BenchIdle
    /\ LoadIdle
    /\ now = TwoYears
    /\ rpc = "loaded"
    /\ report_results \in ReportInputs
    /\ smallest_lib = "none"
    /\ report = <<>>
    /\ report_error = "none"

\* results.get("library_sizes", {}) and results.get("wasm")
LibSizesOf(results_) ==
    IF IsPresent(results_.library_sizes) THEN ValueOf(results_.library_sizes)
    ELSE [python |-> <<>>, nodejs |-> <<>>]

\* truth value of a dict: it has a key
WasmTruthy(wasm_data) ==
    /\ IsPresent(wasm_data)
    /\ \/ IsPresent(ValueOf(wasm_data).bundleSize)
       \/ IsPresent(ValueOf(wasm_data).loading)
       \/ IsPresent(ValueOf(wasm_data).queries)

LibSizesTruthy(lib_sizes) == IsPresent(lib_sizes.python) \/ IsPresent(lib_sizes.nodejs)

HasKey(wasm_data, key) ==
    /\ IsPresent(wasm_data)
    /\ CASE key = "bundleSize" -> IsPresent(ValueOf(wasm_data).bundleSize)
         [] key = "loading" -> IsPresent(ValueOf(wasm_data).loading)
         [] key = "queries" -> IsPresent(ValueOf(wasm_data).queries)

\* get_python_csv, get_python_parquet, get_nodejs_csv: the first entry of
\* the format, None without the key or without such an entry
FirstOfFormat(loading, f) ==
    IF ~IsPresent(loading) THEN <<>>
    ELSE LET entries == ValueOf(loading)
             Matches(e) == e.format = f
             found == SelectSeq(entries, Matches)
         IN IF found = <<>> THEN <<>> ELSE <<found[1]>>

get_python_csv(results_) == FirstOfFormat(results_.python_loading, "csv")
get_python_parquet(results_) == FirstOfFormat(results_.python_loading, "parquet")
get_nodejs_csv(results_) == FirstOfFormat(results_.nodejs_loading, "csv")

RECURSIVE SumAvg(_)
SumAvg(queries) ==
    IF queries = <<>> THEN 0
    ELSE queries[1].avg_time_ms + SumAvg(Tail(queries))

\* calc_query_avg of results.get(key, []): 0.0 for an empty list, as the
\* fraction num / den
calc_query_avg(queries) ==
    IF ~IsPresent(queries) \/ ValueOf(queries) = <<>>
    THEN [num |-> 0, den |-> 1]
    ELSE [num |-> SumAvg(ValueOf(queries)), den |-> Len(ValueOf(queries))]

\* the dict `sizes` of determine_smallest_library, in insertion order
PlatformSizes(lib_sizes, wasm_data) ==
    (IF IsPresent(lib_sizes.python)
     THEN <<[name |-> "Python", size |-> ValueOf(lib_sizes.python).total_bytes]>>
     ELSE <<>>)
    \o (IF IsPresent(lib_sizes.nodejs)
        THEN LET node == ValueOf(lib_sizes.nodejs)
             IN <<[name |-> "Node.js",
                   size |-> IF IsPresent(node.production_bytes)
                            THEN ValueOf(node.production_bytes)
                            ELSE node.total_bytes]>>
        ELSE <<>>)
    \o (IF WasmTruthy(wasm_data) /\ HasKey(wasm_data, "bundleSize")
        THEN <<[name |-> "WASM",
                size |-> ValueOf(ValueOf(wasm_data).bundleSize).total]>>
        ELSE <<>>)

\* a bug: the first platform present wins
FirstPlatform(sizes) == sizes[1].name

\* min(sizes.items(), key=lambda x: x[1])[0]: the first entry, in insertion
\* order, that no entry is smaller than
MinBySize(sizes) ==
    LET i == CHOOSE k \in DOMAIN sizes :
                 /\ \A j \in DOMAIN sizes : sizes[k].size <= sizes[j].size
                 /\ \A j \in 1..(k - 1) : sizes[j].size > sizes[k].size
    IN sizes[i].name

determine_smallest_library(lib_sizes, wasm_data) ==
    LET sizes == PlatformSizes(lib_sizes, wasm_data)
    IN IF sizes = <<>> THEN "Unknown" ELSE MinBySize(sizes)

\* lines 142-155: the key metrics and the winner are computed
determine_winners ==
    /\ rpc = "loaded"
    /\ smallest_lib' = determine_smallest_library(LibSizesOf(report_results),
                                                  report_results.wasm)
    /\ rpc' = "analysed"
    /\ UNCHANGED <<serverVars, genVars, runVars, benchVars, loadVars, report_results, report,
                   report_error>>

\* ---------------------------------------------------- the report's sections
\* what a stretch of the function yields: the exception it raises, or the
\* derived lines it appends to `report`
Raised(exc) == [raised |-> exc, lines |-> <<>>]
Lines(lines) == [raised |-> "none", lines |-> lines]
Nothing == Lines(<<>>)

\* b runs after a, unless a raised
Then(a, b) ==
    IF a.raised # "none" THEN a
    ELSE [raised |-> b.raised,
          lines |-> IF b.raised # "none" THEN <<>> ELSE a.lines \o b.lines]

Line(section, kind, text, values) ==
    [section |-> section, kind |-> kind, text |-> text, values |-> values]

\* f"{x:.0f}" of x = num / den (den > 0): the nearest integer, ties to even
RoundHalfEven(num, den) ==
    LET q == num \div den
        r == num - q * den
    IN IF 2 * r < den THEN q
       ELSE IF 2 * r > den THEN q + 1
       ELSE IF q % 2 = 0 THEN q ELSE q + 1

\* ((baseline - candidate) / baseline) * 100 as shown by f"{...:.0f}"
PercentLess(baseline, candidate) ==
    RoundHalfEven((baseline - candidate) * 100, baseline)

\* `if py_csv and py_parquet:` speedup and mem_reduction, one report line
ParquetVsCsv(section, results_) ==
    LET py_csv == get_python_csv(results_)
        py_parquet == get_python_parquet(results_)
    IN IF ~(IsPresent(py_csv) /\ IsPresent(py_parquet)) THEN Nothing
       ELSE LET csv == ValueOf(py_csv)
                parquet == ValueOf(py_parquet)
            IN IF csv.total_load_time_sec = 0 \/ csv.memory_used_mb = 0
               THEN Raised("ZeroDivisionError")
               ELSE Lines(<<Line(section, "Parquet vs CSV", "Parquet",
                                 <<PercentLess(csv.total_load_time_sec,
                                               parquet.total_load_time_sec),
                                   PercentLess(csv.memory_used_mb,
                                               parquet.memory_used_mb)>>)>>)

\* `if node_csv and py_csv:` both branches divide by the Python load time
NodeVsPython(results_) ==
    LET py_csv == get_python_csv(results_)
        node_csv == get_nodejs_csv(results_)
    IN IF ~(IsPresent(node_csv) /\ IsPresent(py_csv)) THEN Nothing
       ELSE IF ValueOf(py_csv).total_load_time_sec = 0
       THEN Raised("ZeroDivisionError")
       ELSE Lines(<<Line("Executive Summary", "Node.js vs Python", "",
                         <<PercentLess(ValueOf(py_csv).total_load_time_sec,
                                       ValueOf(node_csv).total_load_time_sec)>>)>>)

Flag(section, kind, shown) ==
    IF shown THEN Lines(<<Line(section, kind, "", <<>>)>>) ELSE Nothing

\* wasm_data[key]: KeyError when the sub-key is missing
Subscript(wasm_data, key) ==
    IF HasKey(wasm_data, key) THEN Nothing ELSE Raised("KeyError")

\* sum(q["avgMs"] for q in wasm_data["queries"]) / len(wasm_data["queries"])
WasmAverage(wasm_data) ==
    Then(Subscript(wasm_data, "queries"),
         IF HasKey(wasm_data, "queries") /\ ValueOf(ValueOf(wasm_data).queries) = <<>>
         THEN Raised("ZeroDivisionError") ELSE Nothing)

\* lines 181-310
ExecutiveSummary(results_, winner) ==
    Then(Flag("Executive Summary", "Query Performance",
              calc_query_avg(results_.python_queries).num > 0),
    Then(ParquetVsCsv("Executive Summary", results_),
    Then(Lines(<<Line("Executive Summary", "Smallest Library", winner, <<>>)>>),
    Then(NodeVsPython(results_),
    Then(Flag("Executive Summary", "Cloudflare Workers", results_.cloudflare),
         Flag("Executive Summary", "Client-Side", results_.client))))))

\* lines 312-546: the WASM bar is guarded by "loading" in wasm_data
VisualSummary(results_) ==
    Then(Flag("Visual Summary", "Python queries", IsPresent(results_.python_queries)),
    Then(Flag("Visual Summary", "WASM loading",
              WasmTruthy(results_.wasm) /\ HasKey(results_.wasm, "loading")),
         ParquetVsCsv("Visual Summary", results_)))

\* lines 548-587
LibrarySizeComparison(results_, winner) ==
    IF ~LibSizesTruthy(LibSizesOf(results_)) THEN Nothing
    ELSE Then(IF WasmTruthy(results_.wasm)
              THEN Subscript(results_.wasm, "bundleSize") ELSE Nothing,
              Lines(<<Line("Library Size Comparison", "Winner", winner, <<>>)>>))

\* lines 589-752
DataLoadingPerformance(results_) ==
    Then(IF IsPresent(results_.python_loading)
         THEN Then(Flag("Data Loading Performance", "Python Results", TRUE),
                   ParquetVsCsv("Data Loading Performance", results_))
         ELSE Nothing,
    Then(Flag("Data Loading Performance", "Node.js Results",
              IsPresent(results_.nodejs_loading)),
         Flag("Data Loading Performance", "WASM Results",
              WasmTruthy(results_.wasm) /\ HasKey(results_.wasm, "loading"))))

\* lines 754-846: `if wasm_data:` reads "queries" and "loading" unguarded
QueryPerformance(results_) ==
    Then(Flag("Query Performance", "Python Results",
              IsPresent(results_.python_queries)),
    Then(Flag("Query Performance", "Node.js Results",
              IsPresent(results_.nodejs_queries)),
         IF WasmTruthy(results_.wasm)
         THEN Then(Subscript(results_.wasm, "queries"),
              Then(Subscript(results_.wasm, "loading"),
              Then(WasmAverage(results_.wasm),
                   Flag("Query Performance", "WASM Results", TRUE))))
         ELSE Nothing))

\* lines 848-1007
Deployments(results_) ==
    Then(Flag("Cloudflare Workers Deployment", "Deployment", results_.cloudflare),
         Flag("Client-Side Browser Deployment", "Deployment", results_.client))

\* lines 1012-1040
LoadingTimeChart(results_) ==
    IF WasmTruthy(results_.wasm) THEN Subscript(results_.wasm, "loading")
    ELSE Nothing

\* lines 1042-1080
ThroughputChart(results_) ==
    LET py_csv == get_python_csv(results_)
        py_parquet == get_python_parquet(results_)
    IN IF ~(IsPresent(py_csv) /\ IsPresent(py_parquet)) THEN Nothing
       ELSE LET node_csv == get_nodejs_csv(results_)
                max_throughput ==
                    Max(Max(ValueOf(py_csv).records_per_second,
                            ValueOf(py_parquet).records_per_second),
                        IF IsPresent(node_csv)
                        THEN ValueOf(node_csv).records_per_second ELSE 0)
            IN Then(IF max_throughput = 0 THEN Raised("ZeroDivisionError")
                    ELSE Nothing,
                    IF WasmTruthy(results_.wasm)
                    THEN Subscript(results_.wasm, "loading") ELSE Nothing)

\* lines 1082-1110: max_mem is bound only under `if py_csv:`
MemoryChart(results_) ==
    LET py_csv == get_python_csv(results_)
        others == \/ IsPresent(get_python_parquet(results_))
                  \/ IsPresent(get_nodejs_csv(results_))
                  \/ WasmTruthy(results_.wasm)
    IN IF IsPresent(py_csv)
       THEN IF ValueOf(py_csv).memory_used_mb = 0
            THEN Raised("ZeroDivisionError") ELSE Nothing
       ELSE IF others THEN Raised("UnboundLocalError") ELSE Nothing

\* lines 1112-1132: max() of the averages, then a division by it
QueryChart(results_) ==
    IF ~IsPresent(results_.python_queries) THEN Nothing
    ELSE IF ValueOf(results_.python_queries) = <<>> THEN Raised("ValueError")
    ELSE IF \A i \in DOMAIN ValueOf(results_.python_queries) :
                ValueOf(results_.python_queries)[i].avg_time_ms = 0
    THEN Raised("ZeroDivisionError")
    ELSE Nothing

PerformanceCharts(results_) ==
    Then(LoadingTimeChart(results_),
    Then(ThroughputChart(results_),
    Then(MemoryChart(results_), QueryChart(results_))))

\* the winner column of the 'Bundle Size' row: the literal "WASM"
BundleSizeWinner(winner) == "WASM"

\* lines 1137-1193: the rows of the detailed comparison table; `if
\* wasm_data` reads "queries", "loading" and "bundleSize" unguarded
DetailedComparison(results_, winner) ==
    Then(IF WasmTruthy(results_.wasm) THEN WasmAverage(results_.wasm) ELSE Nothing,
    Then(Lines(<<Line("Detailed Comparison", "Query Speed", "Python", <<>>)>>),
    Then(IF WasmTruthy(results_.wasm)
         THEN Subscript(results_.wasm, "loading") ELSE Nothing,
    Then(Lines(<<Line("Detailed Comparison", "Loading Speed", "Node.js", <<>>)>>),
    Then(IF WasmTruthy(results_.wasm)
         THEN Subscript(results_.wasm, "bundleSize") ELSE Nothing,
         Lines(<<Line("Detailed Comparison", "Bundle Size",
                      BundleSizeWinner(winner), <<>>),
                 Line("Detailed Comparison", "Memory Usage", "WASM", <<>>)>>))))))

\* the body of generate_comprehensive_report after the winners are known
ReportBody(results_, winner) ==
    Then(ExecutiveSummary(results_, winner),
    Then(VisualSummary(results_),
    Then(LibrarySizeComparison(results_, winner),
    Then(DataLoadingPerformance(results_),
    Then(QueryPerformance(results_),
    Then(Deployments(results_),
    Then(PerformanceCharts(results_),
         DetailedComparison(results_, winner))))))))

\* lines 157-1221: the sections are built in order and the file is written
\* at the end; an exception leaves no report
write_report ==
    /\ rpc = "analysed"
    /\ LET body == ReportBody(report_results, smallest_lib)
       IN IF body.raised # "none"
          THEN /\ rpc' = "raised"
               /\ report_error' = body.raised
               /\ UNCHANGED report
          ELSE /\ rpc' = "written"
               /\ report' = body.lines
               /\ UNCHANGED report_error
    /\ UNCHANGED <<serverVars, genVars, runVars, benchVars, loadVars, report_results,
                   smallest_lib>>

NextReport ==
    \/ determine_winners
    \/ write_report

SpecReport == InitReport /\ [][NextReport]_vars

\* ------------------------------------------------ BenchmarkServerHandler
\* request paths: the endpoint and some other path
Paths == {"/save-results", "/results"}

\* request bodies: a JSON document, or bytes that cannot be read or parsed
\* (no Content-Length, not UTF-8, not JSON)
Bodies == [kind : {"json"}, value : 1..MaxBody] \cup {[kind |-> "unreadable"]}

\* datetime.now().strftime("%Y%m%d-%H%M%S"): the clock cut to whole seconds
strftime(t) == t \div TicksPerSecond

\* f"kuzu-wasm-benchmark-{timestamp}.json"
FileName(timestamp) == [prefix |-> "kuzu-wasm-benchmark-", timestamp |-> timestamp]

\* open(filepath, "w") and json.dump: the file is created or truncated and
\* holds the value afterwards
WriteFile(dir, filename, value) ==
    [n \in DOMAIN dir \cup {filename} |-> IF n = filename THEN value ELSE dir[n]]

InitServer ==
    /\ GenIdle
    /\ RunsIdle
    /\ BenchIdle
    /\ LoadIdle
    /\ ReportIdle
    /\ now = TwoYears
    /\ spc = "serving"
    /\ clock = 0
    /\ results_dir = <<>>
    /\ responses = <<>>

\* time passes between and during requests
ClockTick ==
    /\ spc = "serving"
    /\ clock < MaxClock
    /\ clock' = clock + 1
    /\ UNCHANGED <<genVars, runVars, benchVars, loadVars, reportVars, spc, results_dir,
                   responses>>

\* do_POST handles one request from its first statement to its response
do_POST ==
    /\ spc = "serving"
    /\ Len(responses) < MaxRequests
    /\ \E path \in Paths, body \in Bodies :
         IF path # "/save-results"
         THEN /\ responses' = Append(responses,
                                     [status |-> 404, path |-> path, body |-> body])
              /\ UNCHANGED results_dir
         ELSE IF body.kind = "unreadable"
         THEN /\ responses' = Append(responses,
                                     [status |-> 500, path |-> path, body |-> body])
              /\ UNCHANGED results_dir
         ELSE LET filename == FileName(strftime(clock))
              IN /\ results_dir' = WriteFile(results_dir, filename, body.value)
                 /\ responses' = Append(responses,
                                        [status |-> 200, path |-> path,
                                         body |-> body, file |-> filename])
    /\ UNCHANGED <<genVars, runVars, benchVars, loadVars, reportVars, spc, clock>>

NextServer ==
    \/ ClockTick
    \/ do_POST

SpecServer == InitServer /\ [][NextServer]_vars

\* ================================================================= claims
Range(seq) == {seq[i] : i \in DOMAIN seq}
Ids(nodes) == {nodes[i].id : i \in DOMAIN nodes}

RECURSIVE DigitsToNat(_)
\* the number a digit string denotes (int("000012") = 12)
DigitsToNat(d) ==
    IF d = <<>> THEN 0
    ELSE 10 * DigitsToNat(SubSeq(d, 1, Len(d) - 1)) + d[Len(d)]

Ordinal(id) == DigitsToNat(id.digits)

\* the node lists passed to the generator that is running or last ran
SourceNodes ==
    CASE call = "member_of" -> users
      [] call = "user_permissions" -> users
      [] call = "group_permissions" -> groups
      [] call = "inherits_from" -> groups
      [] OTHER -> <<>>

TargetNodes ==
    CASE call = "member_of" -> groups
      [] call = "user_permissions" -> resources
      [] call = "group_permissions" -> resources
      [] call = "inherits_from" -> groups
      [] OTHER -> <<>>

EdgeTimestamp(e) ==
    CASE call = "member_of" -> e.joined_at
      [] call = "inherits_from" -> e.created_at
      [] OTHER -> e.granted_at

Exceptions == {"ValueError", "IndexError"}

\* C1: both endpoints of every edge an edge generator produces are
\* identifiers of nodes in the node lists passed to that generator
C1_ReferentialIntegrity ==
    \A i \in DOMAIN edges :
        /\ edges[i].from \in Ids(SourceNodes)
        /\ edges[i].to \in Ids(TargetNodes)

C1_Witness ==
    /\ call = "group_permissions"
    /\ result = "returned"
    /\ Len(edges) >= 2

\* C2: with at least one user and one resource, every resource's owner_id is
\* the identifier of a generated user
C2_OwnerIsGeneratedUser ==
    (pc \in {"groups", "edges"} /\ num_users >= 1 /\ num_resources >= 1)
        => \A i \in DOMAIN resources : resources[i].owner_id \in Ids(users)

\* C3: the timestamp of every edge is not earlier than the created_at of its
\* source node nor than the created_at of its target node
C3_EdgeNotBeforeEndpoints ==
    \A i \in DOMAIN edges :
        /\ \A n \in Range(SourceNodes) :
             n.id = edges[i].from => EdgeTimestamp(edges[i]) >= n.created_at
        /\ \A n \in Range(TargetNodes) :
             n.id = edges[i].to => EdgeTimestamp(edges[i]) >= n.created_at

C3_Witness ==
    /\ call = "member_of"
    /\ result = "returned"
    /\ \E i \in DOMAIN edges :
       \E u \in Range(users), g \in Range(groups) :
         /\ u.id = edges[i].from
         /\ g.id = edges[i].to
         /\ u.created_at < g.created_at
         /\ edges[i].joined_at = g.created_at

EdgeRel == {<<edges[i].from, edges[i].to>> : i \in DOMAIN edges}

RECURSIVE ReachableFrom(_, _)
\* the identifiers reachable from `frontier` in at most `steps` more edges
ReachableFrom(frontier, steps) ==
    IF steps = 0 THEN frontier
    ELSE frontier \cup
         ReachableFrom({p[2] : p \in {q \in EdgeRel : q[1] \in frontier}},
                       steps - 1)

HasCycle == \E p \in EdgeRel : p[1] \in ReachableFrom({p[2]}, Cardinality(EdgeRel))

\* C4: every INHERITS_FROM edge goes from a group of ordinal >= floor(n/2) to
\* a group of ordinal < floor(n/2), and the edge set has no cycle
C4_InheritanceAcyclic ==
    call = "inherits_from" =>
        /\ \A i \in DOMAIN edges :
             /\ Ordinal(edges[i].from) >= Len(groups) \div 2
             /\ Ordinal(edges[i].to) < Len(groups) \div 2
        /\ ~HasCycle

C4_Witness ==
    /\ call = "inherits_from"
    /\ result = "returned"
    /\ Len(groups) = 5
    /\ Len(edges) = 3

\* C5: a user-permission edge from the owner of its resource has all four
\* capability flags true
C5_OwnerHasFullFlags ==
    call = "user_permissions" =>
        \A i \in DOMAIN edges :
            (\E r \in Range(resources) :
                r.id = edges[i].to /\ r.owner_id = edges[i].from)
            => /\ edges[i].can_create
               /\ edges[i].can_read
               /\ edges[i].can_update
               /\ edges[i].can_delete

C5_Witness ==
    /\ call = "user_permissions"
    /\ result = "returned"
    /\ \E i, j \in DOMAIN edges :
         /\ \E r \in Range(resources) :
              r.id = edges[i].to /\ r.owner_id = edges[i].from
         /\ edges[j].to = edges[i].to
         /\ ~edges[j].can_delete

\* C7: generate_user_permission_edges with fewer than 5 users and
\* generate_group_permission_edges with fewer than 3 groups, given at least
\* one resource, cap the sample to the pool and never raise (stated for the
\* non-empty pools, where a capped sample exists)
C7_SmallPoolNeverRaises ==
    /\ (call = "user_permissions" /\ Len(users) \in 1..(MaxUserPermissions - 1)
            /\ Len(resources) >= 1) => result \notin Exceptions
    /\ (call = "group_permissions"
            /\ Len(groups) \in 1..(MaxGroupPermissions - 1)
            /\ Len(resources) >= 1) => result \notin Exceptions

EdgesOfUser(u) == {i \in DOMAIN edges : edges[i].from = users[u].id}

\* C8: with at least one group, generate_member_of_edges does not raise and
\* gives every user between 1 and min(4, G) edges, all to distinct groups;
\* exactly one edge when G = 1
C8_MembershipFanOut ==
    (call = "member_of" /\ Len(groups) >= 1) =>
        /\ result \notin Exceptions
        /\ result = "returned" =>
             \A u \in DOMAIN users :
                 /\ Cardinality(EdgesOfUser(u)) >= 1
                 /\ Cardinality(EdgesOfUser(u)) <= Min(4, Len(groups))
                 /\ \A a, b \in EdgesOfUser(u) :
                        a # b => edges[a].to # edges[b].to
                 /\ Len(groups) = 1 => Cardinality(EdgesOfUser(u)) = 1

C8_Witness ==
    /\ call = "member_of"
    /\ result = "returned"
    /\ Len(groups) = 5
    /\ \E u \in DOMAIN users : Cardinality(EdgesOfUser(u)) = 4

\* record i carries ordinal i (0-based) and no identifier occurs twice
WellNumbered(nodes) ==
    /\ \A i \in DOMAIN nodes : Ordinal(nodes[i].id) = i - 1
    /\ \A i, j \in DOMAIN nodes : i # j => nodes[i].id # nodes[j].id

\* C9: generate_users, generate_resources and generate_groups return exactly
\* N records, with pairwise distinct identifiers, record i carrying ordinal i
C9_NodesNumbered ==
    /\ WellNumbered(users) /\ WellNumbered(resources) /\ WellNumbered(groups)
    /\ pc # "users" => Len(users) = num_users
    /\ pc \notin {"users", "resources"} => Len(resources) = num_resources
    /\ pc = "edges" => Len(groups) = num_groups

C9_Witness ==
    /\ pc = "edges"
    /\ num_users = 1
    /\ num_resources = 2
    /\ num_groups = 0

\* C6: two generator invocations with the same seed and the same count give
\* the same records, within one program run and across separate runs
C6_SameSeedSameOutput ==
    \A a, b \in DOMAIN outputs :
        (outputs[a].seed = outputs[b].seed /\ outputs[a].count = outputs[b].count)
            => outputs[a].value = outputs[b].value

\* the elapsed times of the measured executions, in execution order
ElapsedSample == [i \in DOMAIN script |-> script[i].elapsed]

\* v is the element at 0-based index k of the ascending-sorted sample
AtSortedIndex(v, k) ==
    /\ \E i \in DOMAIN ElapsedSample : ElapsedSample[i] = v
    /\ Cardinality({i \in DOMAIN ElapsedSample : ElapsedSample[i] < v}) <= k
    /\ Cardinality({i \in DOMAIN ElapsedSample : ElapsedSample[i] <= v}) >= k + 1

\* C10: for a non-empty sample of n elapsed times benchmark_query reports as
\* p50, p95 and p99 the elements of the ascending-sorted sample at indices
\* floor(0.50 n), floor(0.95 n) and floor(0.99 n); the sample 1..10 gives
\* p50 = 6 and p95 = 10
C10_NearestRankPercentiles ==
    /\ bpc # "raised"
    /\ bpc = "completed" =>
         LET n == Len(ElapsedSample)
             r == returned.value
         IN /\ AtSortedIndex(r.p50_time_ms, (50 * n) \div 100)
            /\ AtSortedIndex(r.p95_time_ms, (95 * n) \div 100)
            /\ AtSortedIndex(r.p99_time_ms, (99 * n) \div 100)
            /\ Range(ElapsedSample) = 1..10 /\ n = 10
                 => r.p50_time_ms = 6 /\ r.p95_time_ms = 10

C10_Witness ==
    /\ bpc = "completed"
    /\ Len(ElapsedSample) = 10
    /\ Range(ElapsedSample) = 1..10
    /\ ElapsedSample # times
    /\ returned.value.p50_time_ms = 6

\* C11: benchmark_query called with an empty parameter list hands its caller
\* a defined error (EmptySample raised or returned), never a silent value
C11_EmptySampleIsError ==
    (bpc = "skipped" /\ script = <<>>) => returned.kind = "EmptySample"

\* C12: with a non-empty parameter list of length L and warmup w, exactly
\* min(w, L) warmup executions happen, all before the first measured one;
\* their times and rows are dropped; then exactly L measured executions
\* happen, one per parameter set in list order, and L samples are recorded
C12_WarmupThenMeasure ==
    LET L == Len(script)
        k == IF warmup < L THEN warmup ELSE L
    IN /\ \A i \in 1..(Len(executed) - 1) :
            executed[i].phase = "measured" => executed[i + 1].phase = "measured"
       /\ bpc = "measuring" =>
            /\ \A i \in 1..k : /\ executed[i].phase = "warmup"
                               /\ executed[i].param = i - 1
            /\ Len(executed) = k + Len(times)
            /\ \A i \in 1..Len(times) :
                   /\ executed[k + i].phase = "measured"
                   /\ executed[k + i].param = i - 1
                   /\ times[i] = script[i].elapsed
       /\ bpc = "completed" =>
            /\ Len(executed) = k + L
            /\ Len(times) = L
            /\ returned.value.iterations = L
            /\ \A i \in DOMAIN executed :
                   executed[i].phase = "warmup" <=> i <= k

C12_Witness ==
    /\ bpc = "completed"
    /\ warmup = DefaultWarmup
    /\ Len(script) = 10
    /\ Len(executed) = 15

RECURSIVE RowsBetween(_, _, _)
\* rows the store produced over executions lo..hi of the log that belong
\* to `phase`, added up by halves
RowsBetween(phase, lo, hi) ==
    IF lo > hi THEN 0
    ELSE IF lo = hi
    THEN (IF executed[lo].phase = phase THEN executed[lo].rows ELSE 0)
    ELSE RowsBetween(phase, lo, (lo + hi) \div 2)
         + RowsBetween(phase, (lo + hi) \div 2 + 1, hi)

RowsOf(phase, n) == RowsBetween(phase, 1, n)

\* position of the first occurrence of event e in a list of events, 0 if none
EventAt(events, e) ==
    IF \E i \in DOMAIN events : events[i] = e
    THEN CHOOSE i \in DOMAIN events :
             events[i] = e /\ \A j \in 1..(i - 1) : events[j] # e
    ELSE 0

\* C13: in every measured iteration the timer is stopped only after the
\* cursor reported no further row, and results_count is the number of rows
\* produced over the measured iterations, warmup rows excluded. Each
\* iteration is looked at in the state it leaves, where it is the newest
\* entry of the log.
C13_TimerCoversRows ==
    /\ \A i \in {Len(executed)} \ {0} :
         executed[i].phase = "measured" =>
             LET started == EventAt(executed[i].events, "start")
                 submitted == EventAt(executed[i].events, "execute")
                 exhausted == EventAt(executed[i].events, "exhausted")
                 stopped == EventAt(executed[i].events, "stop")
             IN /\ 0 < started
                /\ started < submitted
                /\ submitted < exhausted
                /\ exhausted < stopped
    /\ bpc = "completed" =>
         returned.value.results_count = RowsOf("measured", Len(executed))

C13_Witness ==
    /\ bpc = "completed"
    /\ RowsOf("warmup", Len(executed)) > 0
    /\ RowsOf("measured", Len(executed)) > 1
    /\ returned.value.results_count = RowsOf("measured", Len(executed))

\* the table names whose file is present, in the order of `tables`
PresentTables ==
    LET Present(t) == t.file_name \in data_files
        kept == SelectSeq(Tables, Present)
    IN [i \in DOMAIN kept |-> kept[i].table_name]

\* C14: whatever subset of the seven source files is absent, the absent
\* tables are skipped, the present ones are loaded in table order, the run
\* completes with a result, and table_load_times_sec has a key for exactly
\* the tables whose file existed
C14_AbsentFilesSkipped ==
    /\ lpc # "raised"
    /\ lpc = "completed" =>
         /\ store = PresentTables
         /\ load_results[Len(load_results)].table_load_times_sec = PresentTables

\* the steps a benchmark_query run may take: idle -> warming-up -> measuring
\* -> completed, or idle -> skipped; a run is idle when the call is entered,
\* which a finished run allows again
RunIsOver == bpc \in {"idle", "completed", "skipped"}

C15_Step ==
    \/ /\ RunIsOver
       /\ calls' = calls + 1
       /\ \/ bpc' = "warming-up" /\ script' # <<>>
          \/ bpc' = "skipped" /\ script' = <<>> /\ executed' = <<>>
    \/ bpc = "warming-up" /\ bpc' \in {"warming-up", "measuring"}
    \/ bpc = "measuring" /\ bpc' \in {"measuring", "completed"}

ReportIsOver == rpc \in {"written", "raised"}

BothLoadsPresent ==
    /\ IsPresent(get_python_csv(report_results))
    /\ IsPresent(get_python_parquet(report_results))

\* v is (baseline - candidate) / baseline * 100 to the nearest integer
IsPercentLess(v, baseline, candidate) ==
    /\ baseline # 0
    /\ 2 * (v * baseline - (baseline - candidate) * 100) <= baseline
    /\ 2 * ((baseline - candidate) * 100 - v * baseline) <= baseline

\* C16: whenever the CSV and the Parquet load results are both present, the
\* report is written and its summary holds the speedup and the memory
\* reduction relative to the CSV baseline, whatever the baseline value is;
\* 10 s against 7 s gives 30 and 100 MB against 15 MB gives 85.
C16_DerivedPercentages ==
    (ReportIsOver /\ BothLoadsPresent) =>
        LET csv == ValueOf(get_python_csv(report_results))
            parquet == ValueOf(get_python_parquet(report_results))
        IN /\ report_error # "ZeroDivisionError"
           /\ rpc = "written" =>
                \E i \in DOMAIN report :
                    /\ report[i].section = "Executive Summary"
                    /\ report[i].kind = "Parquet vs CSV"
                    /\ IsPercentLess(report[i].values[1], csv.total_load_time_sec,
                                     parquet.total_load_time_sec)
                    /\ IsPercentLess(report[i].values[2], csv.memory_used_mb,
                                     parquet.memory_used_mb)
                    /\ (csv = ExampleCsv /\ parquet = ExampleParquet)
                           => report[i].values = <<30, 85>>

\* C17: for every combination of present and absent result sets the report
\* is written without an exception, and a comparison whose inputs are
\* missing is left out.
C17_MissingInputsOmitted ==
    (ReportIsOver /\ report_results \in PresenceInputs) =>
        /\ rpc = "written"
        /\ \A i \in DOMAIN report :
               /\ report[i].kind = "Parquet vs CSV" => BothLoadsPresent
               /\ report[i].kind = "Node.js vs Python" =>
                      /\ IsPresent(get_nodejs_csv(report_results))
                      /\ IsPresent(get_python_csv(report_results))
               /\ report[i].kind = "WASM Results" => IsPresent(report_results.wasm)

\* the platform sizes present in the results, as the set of (name, size)
PresentSizes ==
    LET lib == report_results.library_sizes
        wasm == report_results.wasm
    IN {[name |-> "Python", size |-> ValueOf(ValueOf(lib).python).total_bytes] :
            x \in {y \in {1} : IsPresent(lib) /\ IsPresent(ValueOf(lib).python)}}
       \cup
       {[name |-> "Node.js",
         size |-> IF IsPresent(ValueOf(ValueOf(lib).nodejs).production_bytes)
                  THEN ValueOf(ValueOf(ValueOf(lib).nodejs).production_bytes)
                  ELSE ValueOf(ValueOf(lib).nodejs).total_bytes] :
            x \in {y \in {1} : IsPresent(lib) /\ IsPresent(ValueOf(lib).nodejs)}}
       \cup
       {[name |-> "WASM", size |-> ValueOf(ValueOf(wasm).bundleSize).total] :
            x \in {y \in {1} : IsPresent(wasm) /\ IsPresent(ValueOf(wasm).bundleSize)}}

\* C18: determine_smallest_library names a platform whose size is the least
\* among the platforms present, and "Unknown" when none is present.
C18_SmallestIsMinimum ==
    rpc # "loaded" =>
        IF PresentSizes = {} THEN smallest_lib = "Unknown"
        ELSE \E p \in PresentSizes :
                 /\ p.name = smallest_lib
                 /\ \A q \in PresentSizes : p.size <= q.size

\* the last platform examined is strictly the smallest of three
C18_Witness ==
    /\ rpc # "loaded"
    /\ smallest_lib = "WASM"
    /\ Cardinality(PresentSizes) = 3
    /\ \A q \in PresentSizes : q.name # "WASM" =>
           q.size > ValueOf(ValueOf(report_results.wasm).bundleSize).total

\* C19: a winner named in the report is the platform with the least value,
\* never a fixed name: the 'Bundle Size' row of the detailed comparison
\* names the platform the 'Library Size Comparison' section names.
C19_WinnersComputed ==
    rpc = "written" =>
        \A i, j \in DOMAIN report :
            (/\ report[i].section = "Library Size Comparison"
             /\ report[i].kind = "Winner"
             /\ report[j].section = "Detailed Comparison"
             /\ report[j].kind = "Bundle Size")
                => report[j].text = report[i].text

\* what a step may do to self.results: only the completion of a call with
\* a non-empty parameter list changes it, by appending that call's record;
\* a call with an empty list ends at once with nothing executed
C20_Step ==
    /\ results' # results =>
           /\ bpc = "measuring"
           /\ bpc' = "completed"
           /\ script # <<>>
           /\ returned'.kind = "QueryResult"
           /\ returned'.value.iterations = Len(script)
           /\ results' = Append(results, returned'.value)
    /\ (bpc = "measuring" /\ bpc' # "measuring") =>
           /\ bpc' = "completed"
           /\ Len(results') = Len(results) + 1
    /\ bpc' = "skipped" =>
           /\ script' = <<>>
           /\ results' = results
           /\ executed' = <<>>
    /\ (bpc' \in {"warming-up", "measuring"}) => script' # <<>>

\* C20: self.results holds one record per call that had a non-empty
\* parameter list, in call order; a call with an empty parameter list
\* leaves self.results unchanged and executes no query.
C20_OneRecordPerCall == [][C20_Step]_vars

\* an empty call made after a completed one: the first record is all there is
C20_Witness ==
    /\ calls = 2
    /\ bpc = "skipped"
    /\ Len(results) = 1
    /\ executed = <<>>

RECURSIVE ElapsedBetween(_, _)
\* the elapsed times of measured executions lo..hi added up, by halves
ElapsedBetween(lo, hi) ==
    IF lo > hi THEN 0
    ELSE IF lo = hi THEN script[lo].elapsed
    ELSE ElapsedBetween(lo, (lo + hi) \div 2)
         + ElapsedBetween((lo + hi) \div 2 + 1, hi)

SampleCounts == 1..(CHOOSE m \in RampLengths : \A k \in RampLengths : k <= m)

\* C24 as stated: some sample count n >= 1 and some p of 0.50, 0.95, 0.99
\* give an index floor(p * n) equal to n, one past the last element; looked
\* for among the counts up to the longest list, once that list has been run.
C24_IndexPastTheEnd ==
    (bpc = "completed" /\ SampleCounts \subseteq 1..Len(script)) =>
        \E n \in 1..Len(script), percent \in {50, 95, 99} :
            PercentileIndex(n, percent) = n

\* C24, amended: for every sample count n >= 1 and every p of 0.50, 0.95,
\* 0.99 the index floor(p * n) is at most n - 1, so the lookup stays inside
\* the sorted sample and no call ends in an IndexError; at the boundary
\* (n = 100, p = 0.99) it reads the last element.
C24_IndexWithinSample ==
    /\ \A n \in SampleCounts, percent \in {50, 95, 99} :
           (n * percent) \div 100 <= n - 1
    /\ returned.kind # "IndexError"
    /\ (bpc = "measuring" /\ Len(times) = Len(script)) =>
           ~IndexError(Len(script))
    /\ bpc = "completed" =>
           \A percent \in {50, 95, 99} :
               (Len(script) * percent) \div 100 + 1 \in DOMAIN times

\* 100 samples: 0.99 * 100 is the integer 99, the index of the last element
C24_Witness ==
    /\ bpc = "completed"
    /\ Len(script) = 100
    /\ PercentileIndex(100, 99) = Len(times) - 1
    /\ returned.value.p99_time_ms = returned.value.max_time_ms

\* a <= b for fractions with positive denominators
FractionLeq(a, b) == a.num * b.den <= b.num * a.den

Whole(v) == [num |-> v, den |-> 1]

\* C25: for a non-empty sample min <= p50 <= p95 <= p99 <= max and
\* min <= avg <= max; for a sample of size 1 all six values are equal.
C25_StatisticsOrdered ==
    bpc = "completed" =>
        LET r == returned.value
        IN /\ r.min_time_ms <= r.p50_time_ms
           /\ r.p50_time_ms <= r.p95_time_ms
           /\ r.p95_time_ms <= r.p99_time_ms
           /\ r.p99_time_ms <= r.max_time_ms
           /\ FractionLeq(Whole(r.min_time_ms), r.avg_time_ms)
           /\ FractionLeq(r.avg_time_ms, Whole(r.max_time_ms))
           /\ Len(script) = 1 =>
                  /\ {r.min_time_ms, r.p50_time_ms, r.p95_time_ms, r.p99_time_ms,
                      r.max_time_ms} = {script[1].elapsed}
                  /\ r.avg_time_ms.num = script[1].elapsed * r.avg_time_ms.den

\* 100 samples executed slowest first: the five order statistics differ
\* except p99 = max, and the mean lies strictly between min and max
C25_Witness ==
    /\ bpc = "completed"
    /\ Len(script) = 100
    /\ script[1].elapsed > script[100].elapsed
    /\ returned.value.min_time_ms < returned.value.p50_time_ms
    /\ returned.value.p50_time_ms < returned.value.p95_time_ms
    /\ returned.value.p95_time_ms < returned.value.p99_time_ms
    /\ ~FractionLeq(returned.value.avg_time_ms, Whole(returned.value.min_time_ms))

\* C22: every benchmark_load run issues its loads against a store created
\* empty in that run: a directory left by an earlier run is removed before
\* the schema is created, so no earlier row is there when the first load
\* step starts.
C22_FreshStorePerRun ==
    /\ (lpc = "loading" /\ table = 1) => store = <<>>
    /\ lpc = "loading" =>
           \A i \in DOMAIN store :
               \E k \in 1..(table - 1) :
                   /\ Tables[k].table_name = store[i]
                   /\ Tables[k].file_name \in data_files

\* the first load step of a run whose directory an earlier run left loaded
C22_Witness ==
    /\ lpc = "loading"
    /\ table = 1
    /\ format_type = "parquet"
    /\ db_base[format_type] # <<>>
    /\ db_base[format_type][1] # <<>>
    /\ "users" \in data_files
    /\ store = <<>>

\* what a step of run_all_benchmarks may do around a failure
C23_Step ==
    /\ lpc' = "raised" =>
           /\ lpc = "loading"
           /\ load_results' = load_results
           /\ formats' = formats
    /\ load_results' # load_results =>
           /\ lpc = "loading"
           /\ lpc' = "completed"
           /\ load_results' = Append(load_results, load_results'[Len(load_results')])
           /\ load_results'[Len(load_results')].format = format_type
           /\ \A i \in DOMAIN load_results : load_results[i].format # format_type
    /\ (lpc = "loading" /\ lpc' = "completed") =>
           Len(load_results') = Len(load_results) + 1
    /\ lpc' = "saved" => formats = <<>>

\* C23: a failure while benchmarking one format is local: every remaining
\* format is still benchmarked, save_results still runs afterwards, and
\* self.results holds an entry for a format exactly when that format's
\* benchmark_load ran to completion.
C23_FailureIsLocal ==
    /\ [](lpc = "raised" =>
             IF formats # <<>> THEN ENABLED benchmark_load
             ELSE ENABLED save_results)
    /\ [][C23_Step]_vars

\* csv failed, parquet was still benchmarked and the results were saved
C23_Witness ==
    /\ lpc = "saved"
    /\ Len(load_results) = 1
    /\ load_results[1].format = "parquet"

\* C29: a relationship table is loaded only after the node tables it refers
\* to have been loaded in the same run, for every combination of present
\* and absent source files.
C29_NodesBeforeRelationships ==
    /\ \A i \in DOMAIN store :
           Endpoints(store[i]) \subseteq {store[j] : j \in 1..(i - 1)}
    /\ lpc = "raised" => Endpoints(Tables[table].table_name) \subseteq Loaded

\* C26: in the INHERITS_FROM edges every group is the child of at most one
\* edge and no group is both a child and a parent, so every inheritance
\* chain has length exactly 1.
C26_ChainsOfLengthOne ==
    call = "inherits_from" =>
        /\ \A i, j \in DOMAIN edges :
               i # j => edges[i].from # edges[j].from
        /\ \A i, j \in DOMAIN edges : edges[i].from # edges[j].to

\* two children of the same parent
C26_Witness ==
    /\ call = "inherits_from"
    /\ result = "returned"
    /\ Len(edges) = 2
    /\ edges[1].to = edges[2].to
    /\ edges[1].from # edges[2].from

\* C27: for every group count n >= 0 and every outcome of the draws,
\* generate_inherits_from_edges returns an edge list without raising.
C27_InheritsNeverRaises ==
    call = "inherits_from" => result \notin Exceptions

\* C28: every user-permission and group-permission edge carries a
\* granted_by equal to the owner_id of its target resource, and that
\* granted_by is the identifier of a generated user (stated for runs with
\* at least one user, where such an identifier exists).
C28_GrantedByOwner ==
    (call \in {"user_permissions", "group_permissions"} /\ Len(users) >= 1) =>
        \A i \in DOMAIN edges :
            /\ \E r \in Range(resources) :
                   r.id = edges[i].to /\ r.owner_id = edges[i].granted_by
            /\ edges[i].granted_by \in Ids(users)

Answered(status) == {i \in DOMAIN responses : responses[i].status = status}

\* C30: each POST to /save-results with a valid JSON body is answered 200
\* and its body is kept in a results file that no later request overwrites
\* (as many stored files as 200 responses); an unreadable or unparsable
\* body is answered 500 and a POST to another path 404, storing nothing.
C30_EveryResultKept ==
    /\ \A i \in DOMAIN responses :
           responses[i].status =
               IF responses[i].path # "/save-results" THEN 404
               ELSE IF responses[i].body.kind = "json" THEN 200 ELSE 500
    /\ Cardinality(DOMAIN results_dir) = Cardinality(Answered(200))
    /\ \A i \in Answered(200) :
           /\ responses[i].file \in DOMAIN results_dir
           /\ results_dir[responses[i].file] = responses[i].body.value

====
